---------------------------- MODULE Spec2Model ----------------------------
(***************************************************************************)
(* fbar_prep: the fact-resolution engine (ReportContext over two Facts     *)
(* layers), the Rate Value constructor (ExchangeRate::new) and the         *)
(* field-order-sensitive loader of the user document (UserDataVisitor).    *)
(*                                                                         *)
(* Strings whose letter case matters (currency codes) are sequences of     *)
(* one-character strings, so that to_lowercase is computed character by    *)
(* character.  f64 values are records [nan, milli]: either NaN or a number *)
(* held exactly in thousandths (0.85 is 850).                              *)
(***************************************************************************)
EXTENDS Integers, Sequences, FiniteSets, TLC

VARIABLES
    in_facts,        \* main.rs: the reference Facts handed to ReportContext::new
    in_ext,          \* main.rs: the Option<Facts> handed to ReportContext::new
    ctx,             \* the ReportContext, None before construction
    query,           \* the last call made on the ReportContext
    result,          \* what that call returned
    er_in,           \* arguments of a call of ExchangeRate::new
    er_out,          \* what ExchangeRate::new returned
    providers,       \* visit_map local: Option<Vec<Provider>>
    fact_extensions, \* visit_map local: Option<Facts>
    accounts,        \* visit_map local: Option<Vec<AccountDefinition>>
    keys,            \* the keys map.next_key() has yielded so far, in document order
    value,           \* the raw value of the field read last, before deserialization
    load_result,     \* what visit_map returned, None while it is still looping
    acct,            \* an AccountDefinition, as far as its dates go
    acct_query,      \* the last call made on the account
    acct_result,     \* what that call returned
    cv_in,           \* an ExchangeRate and an amount in USD
    cv_out           \* the amount converted from USD, then that converted back

engineVars == <<in_facts, in_ext, ctx, query, result>>
rateVars == <<er_in, er_out>>
loaderVars == <<providers, fact_extensions, accounts, keys, value, load_result>>
accountVars == <<acct, acct_query, acct_result>>
convVars == <<cv_in, cv_out>>
vars == <<in_facts, in_ext, ctx, query, result, er_in, er_out,
          providers, fact_extensions, accounts, keys, value, load_result,
          acct, acct_query, acct_result, cv_in, cv_out>>

---------------------------------------------------------------------------
(* Option and Result.  An error is its message, a tuple of the literal text and
   the values formatted into it. *)

None == [some |-> FALSE]
Some(v) == [some |-> TRUE, value |-> v]
Ok(v) == [ok |-> TRUE, value |-> v]
Err(e) == [ok |-> FALSE, error |-> e]

---------------------------------------------------------------------------
(* Bounds of the model *)

\* Year entries plus rate entries of the reference and override fact sets together.
MaxSize == 4
\* Characters of a currency code handed to ExchangeRate::new.
MaxCodeLen == 3
\* Top-level fields of a user document.
MaxFields == 3
\* Provider records in one providers field.
MaxProviders == 2
\* Account records in one accounts field.
MaxAccounts == 2
\* Year entries plus rate entries of one fact_extensions field.
MaxDocFacts == 2

---------------------------------------------------------------------------
(* Strings and f64 *)

Upper == <<"C", "E", "F", "H", "R", "U">>
Lower == <<"c", "e", "f", "h", "r", "u">>

\* char::to_lowercase on the letters of the model
LowerChar(c) ==
    IF \E i \in 1..Len(Upper) : Upper[i] = c
    THEN Lower[CHOOSE i \in 1..Len(Upper) : Upper[i] = c]
    ELSE c

\* str::to_lowercase
ToLowercase(s) == [i \in 1..Len(s) |-> LowerChar(s[i])]

NaN == [nan |-> TRUE, milli |-> 0]
F64(m) == [nan |-> FALSE, milli |-> m]

\* a <= b on f64: false whenever either side is NaN
F64Le(a, b) == ~a.nan /\ ~b.nan /\ a.milli <= b.milli

Abs(x) == IF x < 0 THEN -x ELSE x
Sign(x) == IF x < 0 THEN -1 ELSE 1

\* num/den rounded to the nearest integer, halves away from zero (f64::round)
RoundDiv(num, den) ==
    Sign(num) * Sign(den) * ((2 * Abs(num) + Abs(den)) \div (2 * Abs(den)))

---------------------------------------------------------------------------
(* facts/exchange_rate.rs *)

\* ExchangeRate::new with `rate < 0.0` for `rate <= 0.0`
ExchangeRateNew_AllowsZero(currency_code, rate) ==
    IF ~rate.nan /\ rate.milli < 0
    THEN Err(<<"Exchange rate must be greater than 0">>)
    ELSE Ok([currency_code |-> ToLowercase(currency_code), rate |-> rate])

ExchangeRateNew(currency_code, rate) ==
    IF F64Le(rate, F64(0))
    THEN Err(<<"Exchange rate must be greater than 0">>)
    ELSE Ok([currency_code |-> ToLowercase(currency_code), rate |-> rate])

\* amount * rate, then (result * 100.0).round() / 100.0
RateConvertFromUsd(er, amount) ==
    IF er.rate.nan \/ amount.nan THEN NaN
    ELSE F64(10 * RoundDiv(amount.milli * er.rate.milli, 10000))

\* convert_to_usd multiplying by the rate
RateConvertToUsd_Multiplies(er, amount) ==
    IF er.rate.nan \/ amount.nan \/ er.rate.milli = 0 THEN NaN
    ELSE F64(10 * RoundDiv(amount.milli * er.rate.milli, 10000))

\* amount / rate, then (result * 100.0).round() / 100.0
RateConvertToUsd(er, amount) ==
    IF er.rate.nan \/ amount.nan \/ er.rate.milli = 0 THEN NaN
    ELSE F64(10 * RoundDiv(amount.milli * 100, er.rate.milli))

---------------------------------------------------------------------------
(* facts/mod.rs *)

FactsEmpty == [years |-> <<>>]

\* self.years.iter().find(|annual_fact| annual_fact.year == year)
RECURSIVE FindYear(_, _, _)
FindYear(years, year, i) ==
    IF i > Len(years) THEN None
    ELSE IF years[i].year = year THEN Some(years[i])
    ELSE FindYear(years, year, i + 1)

\* annual_fact.exchange_rates.iter().find(|rate| rate.currency_code == lookup_code)
RECURSIVE FindRate(_, _, _)
FindRate(rates, lookup_code, i) ==
    IF i > Len(rates) THEN None
    ELSE IF rates[i].currency_code = lookup_code THEN Some(rates[i])
    ELSE FindRate(rates, lookup_code, i + 1)

\* get_exchange_rate comparing the code as passed, not lower-cased
GetExchangeRate_ExactCode(facts, year, currency_code) ==
    LET annual_fact == FindYear(facts.years, year, 1)
    IN  IF annual_fact.some
        THEN FindRate(annual_fact.value.exchange_rates, currency_code, 1)
        ELSE None

\* the first rate with the code in any entry of the year
RECURSIVE FindInAnyEntry(_, _, _, _)
FindInAnyEntry(years, year, lookup_code, i) ==
    IF i > Len(years) THEN None
    ELSE LET here == IF years[i].year = year
                     THEN FindRate(years[i].exchange_rates, lookup_code, 1)
                     ELSE None
         IN  IF here.some THEN here
             ELSE FindInAnyEntry(years, year, lookup_code, i + 1)

\* get_exchange_rate searching every entry of the year, not only the first
GetExchangeRate_AnyEntry(facts, year, currency_code) ==
    FindInAnyEntry(facts.years, year, ToLowercase(currency_code), 1)

GetExchangeRate(facts, year, currency_code) ==
    LET lookup_code == ToLowercase(currency_code)
        annual_fact == FindYear(facts.years, year, 1)
    IN  IF annual_fact.some
        THEN FindRate(annual_fact.value.exchange_rates, lookup_code, 1)
        ELSE None

---------------------------------------------------------------------------
(* report_context/converter.rs, report_context/mod.rs *)

ConverterNew(exchange_rate, source) ==
    [exchange_rate |-> exchange_rate, source |-> source]

\* ReportContext::new with the reference facts for the missing extensions
ReportContextNew_DefaultsToFacts(facts, extensions) ==
    [facts |-> facts,
     extensions |-> IF extensions.some THEN extensions.value ELSE facts]

ReportContextNew(facts, extensions) ==
    [facts |-> facts,
     extensions |-> IF extensions.some THEN extensions.value ELSE FactsEmpty]

\* bail!("No exchange rate found for {} in year {}", currency_code, year)
NoRateMsg(currency_code, year) ==
    <<"No exchange rate found for ", currency_code, " in year ", year>>

\* find_exchange_rate with the two lookups in the other order
FindExchangeRate_FactsFirst(self, year, currency_code) ==
    LET lookup_code == ToLowercase(currency_code)
        irs == GetExchangeRate(self.facts, year, lookup_code)
        ext == GetExchangeRate(self.extensions, year, lookup_code)
    IN  IF irs.some THEN Ok(ConverterNew(irs.value, "IrsProvided"))
        ELSE IF ext.some THEN Ok(ConverterNew(ext.value, "UserProvided"))
        ELSE Err(NoRateMsg(currency_code, year))

\* find_exchange_rate without the else-if arm
FindExchangeRate_NoFallback(self, year, currency_code) ==
    LET lookup_code == ToLowercase(currency_code)
        ext == GetExchangeRate(self.extensions, year, lookup_code)
    IN  IF ext.some THEN Ok(ConverterNew(ext.value, "UserProvided"))
        ELSE Err(NoRateMsg(currency_code, year))

\* find_exchange_rate with lookup_code in the bail! message
FindExchangeRate_LookupCodeInError(self, year, currency_code) ==
    LET lookup_code == ToLowercase(currency_code)
        ext == GetExchangeRate(self.extensions, year, lookup_code)
        irs == GetExchangeRate(self.facts, year, lookup_code)
    IN  IF ext.some THEN Ok(ConverterNew(ext.value, "UserProvided"))
        ELSE IF irs.some THEN Ok(ConverterNew(irs.value, "IrsProvided"))
        ELSE Err(NoRateMsg(lookup_code, year))

FindExchangeRate(self, year, currency_code) ==
    LET lookup_code == ToLowercase(currency_code)
        ext == GetExchangeRate(self.extensions, year, lookup_code)
        irs == GetExchangeRate(self.facts, year, lookup_code)
    IN  IF ext.some THEN Ok(ConverterNew(ext.value, "UserProvided"))
        ELSE IF irs.some THEN Ok(ConverterNew(irs.value, "IrsProvided"))
        ELSE Err(NoRateMsg(currency_code, year))

\* convert_to_usd multiplying by the rate, as convert_from_usd does
ConvertToUsd_Multiplies(self, year, source_currency, amount) ==
    LET found == FindExchangeRate(self, year, source_currency)
    IN  IF found.ok THEN Ok(RateConvertFromUsd(found.value.exchange_rate, amount))
        ELSE found

\* self.find_exchange_rate(..).map(|rate| rate.convert_to_usd(amount))
ConvertToUsd(self, year, source_currency, amount) ==
    LET found == FindExchangeRate(self, year, source_currency)
    IN  IF found.ok THEN Ok(RateConvertToUsd(found.value.exchange_rate, amount))
        ELSE found

ConvertFromUsd(self, year, target_currency, amount) ==
    LET found == FindExchangeRate(self, year, target_currency)
    IN  IF found.ok THEN Ok(RateConvertFromUsd(found.value.exchange_rate, amount))
        ELSE found

---------------------------------------------------------------------------
(* The fact sets and calls the engine is exercised on *)

Years == {2023, 2024}

EUR == <<"E", "U", "R">>
eUr == <<"e", "U", "r">>
eur == <<"e", "u", "r">>
CHF == <<"C", "H", "F">>
Chf == <<"C", "h", "f">>

\* Rate Values as the tests build them: ExchangeRate::new("EUR".to_string(), 0.85)
ExchangeRates ==
    {ExchangeRateNew(EUR, F64(850)).value,
     ExchangeRateNew(eUr, F64(800)).value,
     ExchangeRateNew(CHF, F64(900)).value}

\* AnnualFact values of a given size (the entry itself plus its rates), over a set of rates
AnnualFactsOfSize(years, rates, s) ==
    {[year |-> y, exchange_rates |-> r] : y \in years, r \in [1..(s - 1) -> rates]}

\* Facts values of a given size
RECURSIVE FactsOfSize(_, _, _)
FactsOfSize(years, rates, s) ==
    IF s = 0 THEN {[years |-> <<>>]}
    ELSE UNION {{[years |-> <<af>> \o rest.years] :
                    af \in AnnualFactsOfSize(years, rates, k),
                    rest \in FactsOfSize(years, rates, s - k)} : k \in 1..s}

QueryCodes == {EUR, eur, Chf}
QueryAmounts == {F64(33330)}

---------------------------------------------------------------------------
(* The engine: main.rs builds one ReportContext, report code calls it *)

IdleRate == er_in = None /\ er_out = None
IdleLoader ==
    /\ providers = None
    /\ fact_extensions = None
    /\ accounts = None
    /\ keys = <<>>
    /\ value = None
    /\ load_result = None
IdleAccount == acct = None /\ acct_query = None /\ acct_result = None
IdleConv == cv_in = None /\ cv_out = None
IdleEngine ==
    /\ in_facts = FactsEmpty
    /\ in_ext = None
    /\ ctx = None
    /\ query = None
    /\ result = None

InitEngine ==
    /\ \E a \in 0..MaxSize : \E b \in 0..(MaxSize - a) :
          /\ in_facts \in FactsOfSize(Years, ExchangeRates, a)
          /\ in_ext \in {Some(f) : f \in FactsOfSize(Years, ExchangeRates, b)}
                          \cup (IF b = 0 THEN {None} ELSE {})
    /\ ctx = None
    /\ query = None
    /\ result = None
    /\ IdleRate
    /\ IdleLoader
    /\ IdleAccount
    /\ IdleConv

\* ReportContext::new(facts, user_data.fact_extensions)
New ==
    /\ ~ctx.some
    /\ ctx' = Some(ReportContextNew(in_facts, in_ext))
    /\ UNCHANGED <<in_facts, in_ext, query, result, rateVars, loaderVars,
                 accountVars, convVars>>

CallFindExchangeRate ==
    /\ ctx.some
    /\ \E year \in Years, code \in QueryCodes :
          /\ query' = Some([op |-> "find_exchange_rate", year |-> year,
                            currency_code |-> code])
          /\ result' = Some(FindExchangeRate(ctx.value, year, code))
    /\ UNCHANGED <<in_facts, in_ext, ctx, rateVars, loaderVars,
                 accountVars, convVars>>

CallConvertToUsd ==
    /\ ctx.some
    /\ \E year \in Years, code \in QueryCodes, amount \in QueryAmounts :
          /\ query' = Some([op |-> "convert_to_usd", year |-> year,
                            currency_code |-> code, amount |-> amount])
          /\ result' = Some(ConvertToUsd(ctx.value, year, code, amount))
    /\ UNCHANGED <<in_facts, in_ext, ctx, rateVars, loaderVars,
                 accountVars, convVars>>

CallConvertFromUsd ==
    /\ ctx.some
    /\ \E year \in Years, code \in QueryCodes, amount \in QueryAmounts :
          /\ query' = Some([op |-> "convert_from_usd", year |-> year,
                            currency_code |-> code, amount |-> amount])
          /\ result' = Some(ConvertFromUsd(ctx.value, year, code, amount))
    /\ UNCHANGED <<in_facts, in_ext, ctx, rateVars, loaderVars,
                 accountVars, convVars>>

NextEngine ==
    \/ New
    \/ CallFindExchangeRate
    \/ CallConvertToUsd
    \/ CallConvertFromUsd

SpecEngine == InitEngine /\ [][NextEngine]_vars

---------------------------------------------------------------------------
(* Rate Value construction on its own: ExchangeRate::new(currency_code, rate) *)

CodeChars == {"E", "e", "U", "r"}
InputCodes == UNION {[1..n -> CodeChars] : n \in 0..MaxCodeLen}
InputRates == {F64(-1000), F64(-1), F64(0), F64(1), F64(850), NaN}

InitRate ==
    /\ er_in \in {Some(a) : a \in [currency_code : InputCodes, rate : InputRates]}
    /\ er_out = None
    /\ IdleEngine
    /\ IdleLoader
    /\ IdleAccount
    /\ IdleConv

CallExchangeRateNew ==
    /\ ~er_out.some
    /\ er_out' = Some(ExchangeRateNew(er_in.value.currency_code, er_in.value.rate))
    /\ UNCHANGED <<er_in, engineVars, loaderVars, accountVars, convVars>>

NextRate == CallExchangeRateNew

SpecRate == InitRate /\ [][NextRate]_vars

---------------------------------------------------------------------------
(* facts/exchange_rate.rs, facts/mod.rs: derived and custom Deserialize *)

\* Vec<ExchangeRate>: each element through RawExchangeRate and ExchangeRate::new,
\* in document order, the first failure ending the whole deserialization
RECURSIVE DeserializeRates(_, _)
DeserializeRates(raw, i) ==
    IF i > Len(raw) THEN Ok(<<>>)
    ELSE LET made == ExchangeRateNew(raw[i].currency_code, raw[i].rate)
         IN  IF ~made.ok THEN made
             ELSE LET rest == DeserializeRates(raw, i + 1)
                  IN  IF rest.ok THEN Ok(<<made.value>> \o rest.value) ELSE rest

\* Vec<AnnualFact>
RECURSIVE DeserializeYears(_, _)
DeserializeYears(raw, i) ==
    IF i > Len(raw) THEN Ok(<<>>)
    ELSE LET rates == DeserializeRates(raw[i].exchange_rates, 1)
         IN  IF ~rates.ok THEN rates
             ELSE LET rest == DeserializeYears(raw, i + 1)
                  IN  IF rest.ok
                      THEN Ok(<<[year |-> raw[i].year,
                                 exchange_rates |-> rates.value]>> \o rest.value)
                      ELSE rest

\* Facts
DeserializeFacts(raw) ==
    LET years == DeserializeYears(raw.years, 1)
    IN  IF years.ok THEN Ok([years |-> years.value]) ELSE years

---------------------------------------------------------------------------
(* data/user_data_deserializer.rs: UserDataVisitor::visit_map *)

OrderingMsg == <<"accounts must come after providers in YAML">>

\* format!("account {} references unknown provider {}", ..)
UnknownProviderMsg(handle, provider_handle) ==
    <<"account ", handle, " references unknown provider ", provider_handle>>

\* de::Error::missing_field("providers")
MissingFieldMsg(field) == <<"missing field ", field>>

\* the provider found with rfind for find
FindProvider_Last(providers_ref, provider_handle, i) ==
    LET hits == {j \in 1..Len(providers_ref) :
                    providers_ref[j].handle = provider_handle}
    IN  IF hits = {} THEN None
        ELSE Some(providers_ref[CHOOSE j \in hits : \A k \in hits : k <= j])

\* providers_ref.iter().find(|p| p.handle == account.provider_handle).cloned()
RECURSIVE FindProvider(_, _, _)
FindProvider(providers_ref, provider_handle, i) ==
    IF i > Len(providers_ref) THEN None
    ELSE IF providers_ref[i].handle = provider_handle THEN Some(providers_ref[i])
    ELSE FindProvider(providers_ref, provider_handle, i + 1)

\* the loop with `continue` for the early return
RECURSIVE AttachProviders_Skip(_, _, _)
AttachProviders_Skip(providers_ref, raw_accounts, i) ==
    IF i > Len(raw_accounts) THEN Ok(<<>>)
    ELSE LET account == raw_accounts[i]
             referenced_provider ==
                 FindProvider(providers_ref, account.provider_handle, 1)
             rest == AttachProviders_Skip(providers_ref, raw_accounts, i + 1)
         IN  IF ~rest.ok THEN rest
             ELSE IF ~referenced_provider.some THEN Ok(<<account>> \o rest.value)
             ELSE Ok(<<[account EXCEPT !.provider = referenced_provider]>>
                        \o rest.value)

\* for account in &mut raw_accounts { .. }: the first account without a provider
\* ends the load, the others get theirs attached
RECURSIVE AttachProviders(_, _, _)
AttachProviders(providers_ref, raw_accounts, i) ==
    IF i > Len(raw_accounts) THEN Ok(<<>>)
    ELSE LET account == raw_accounts[i]
             referenced_provider ==
                 FindProvider(providers_ref, account.provider_handle, 1)
         IN  IF ~referenced_provider.some
             THEN Err(UnknownProviderMsg(account.handle, account.provider_handle))
             ELSE LET rest == AttachProviders(providers_ref, raw_accounts, i + 1)
                  IN  IF rest.ok
                      THEN Ok(<<[account EXCEPT !.provider = referenced_provider]>>
                                 \o rest.value)
                      ELSE rest

\* the Field::Accounts arm with unwrap_or_default for the is_none check
AccountsField_NoOrderCheck(providers_opt, raw_accounts) ==
    AttachProviders(IF providers_opt.some THEN providers_opt.value ELSE <<>>,
                    raw_accounts, 1)

\* the Field::Accounts arm, from the providers parsed so far and the parsed accounts
AccountsField(providers_opt, raw_accounts) ==
    IF ~providers_opt.some THEN Err(OrderingMsg)
    ELSE AttachProviders(providers_opt.value, raw_accounts, 1)

\* the end of visit_map with unwrap_or_default for ok_or_else
EndOfMap_DefaultProviders(providers_opt, facts_opt, accounts_opt) ==
    Ok([providers |-> IF providers_opt.some THEN providers_opt.value ELSE <<>>,
        fact_extensions |-> facts_opt,
        accounts |-> accounts_opt])

\* after the loop: providers.ok_or_else(missing_field)?, then Ok(UserData {..})
EndOfMap(providers_opt, facts_opt, accounts_opt) ==
    IF ~providers_opt.some THEN Err(MissingFieldMsg("providers"))
    ELSE Ok([providers |-> providers_opt.value,
             fact_extensions |-> facts_opt,
             accounts |-> accounts_opt])

---------------------------------------------------------------------------
(* The documents the loader is exercised on *)

ProviderRecords ==
    {[name |-> "Bank X", handle |-> "a", address |-> "1 X St"],
     [name |-> "Bank Y", handle |-> "a", address |-> "2 Y St"],
     [name |-> "Bank Z", handle |-> "b", address |-> "3 Z St"]}

\* an account record may spell out a provider of its own: the field is part of
\* the derived Deserialize of AccountDefinition
AccountRecords ==
    {[handle |-> "acc1", provider_handle |-> "a", provider |-> None],
     [handle |-> "acc2", provider_handle |-> "b",
      provider |-> Some([name |-> "Bank W", handle |-> "w", address |-> "4 W St"])]}

ProviderLists == UNION {[1..n -> ProviderRecords] : n \in 0..MaxProviders}
AccountLists == UNION {[1..n -> AccountRecords] : n \in 0..MaxAccounts}

DocRates ==
    {[currency_code |-> EUR, rate |-> F64(850)],
     [currency_code |-> Chf, rate |-> F64(0)],
     [currency_code |-> eUr, rate |-> NaN]}

DocYears == {2023}

FactsDocs == UNION {FactsOfSize(DocYears, DocRates, s) : s \in 0..MaxDocFacts}

---------------------------------------------------------------------------
(* The loader: one action per arm of the match on the next key *)

InitLoader ==
    /\ providers = None
    /\ fact_extensions = None
    /\ accounts = None
    /\ keys = <<>>
    /\ value = None
    /\ load_result = None
    /\ IdleEngine
    /\ IdleRate
    /\ IdleAccount
    /\ IdleConv

Looping == ~load_result.some /\ Len(keys) < MaxFields

\* Field::Providers => providers = Some(map.next_value()?)
VisitProviders ==
    /\ Looping
    /\ \E v \in ProviderLists :
          /\ value' = Some(v)
          /\ providers' = Some(v)
    /\ keys' = Append(keys, "providers")
    /\ UNCHANGED <<fact_extensions, accounts, load_result, engineVars, rateVars,
                 accountVars, convVars>>

\* Field::FactExtensions => fact_extensions = Some(map.next_value()?)
VisitFactExtensions ==
    /\ Looping
    /\ \E v \in FactsDocs :
          LET parsed == DeserializeFacts(v)
          IN  /\ value' = Some(v)
              /\ IF parsed.ok
                 THEN /\ fact_extensions' = Some(parsed.value)
                      /\ UNCHANGED load_result
                 ELSE /\ load_result' = Some(parsed)
                      /\ UNCHANGED fact_extensions
    /\ keys' = Append(keys, "fact_extensions")
    /\ UNCHANGED <<providers, accounts, engineVars, rateVars,
                 accountVars, convVars>>

\* Field::Accounts => { .. }
VisitAccounts ==
    /\ Looping
    /\ \E v \in AccountLists :
          LET attached == AccountsField(providers, v)
          IN  /\ value' = Some(v)
              /\ IF attached.ok
                 THEN /\ accounts' = Some(attached.value)
                      /\ UNCHANGED load_result
                 ELSE /\ load_result' = Some(attached)
                      /\ UNCHANGED accounts
    /\ keys' = Append(keys, "accounts")
    /\ UNCHANGED <<providers, fact_extensions, engineVars, rateVars,
                 accountVars, convVars>>

\* map.next_key()? yields None: the loop ends and visit_map returns
VisitEnd ==
    /\ ~load_result.some
    /\ load_result' = Some(EndOfMap(providers, fact_extensions, accounts))
    /\ UNCHANGED <<providers, fact_extensions, accounts, keys, value,
                   engineVars, rateVars,
                 accountVars, convVars>>

NextLoader ==
    \/ VisitProviders
    \/ VisitFactExtensions
    \/ VisitAccounts
    \/ VisitEnd

SpecLoader == InitLoader /\ [][NextLoader]_vars

---------------------------------------------------------------------------
(* What the claims speak of, stated without the code's own search *)

LowerLetters == {"c", "e", "f", "h", "r", "u"}
CasePairs == {<<"C", "c">>, <<"E", "e">>, <<"F", "f">>,
              <<"H", "h">>, <<"R", "r">>, <<"U", "u">>}

\* l is s with every upper-case letter replaced by its lower-case letter
IsLowercaseOf(l, s) ==
    /\ Len(l) = Len(s)
    /\ \A i \in 1..Len(s) :
          /\ l[i] \in LowerLetters
          /\ l[i] = s[i] \/ <<s[i], l[i]>> \in CasePairs

\* The rates a fact set holds for a year and a code as the caller wrote it: in the
\* first entry of that year, the first rate whose code is the lower-cased code.
Matches(facts, year, code) ==
    {r \in ExchangeRates :
        \E i \in 1..Len(facts.years) :
            /\ facts.years[i].year = year
            /\ \A k \in 1..(i - 1) : facts.years[k].year # year
            /\ LET rates == facts.years[i].exchange_rates
               IN  \E j \in 1..Len(rates) :
                      /\ rates[j] = r
                      /\ IsLowercaseOf(rates[j].currency_code, code)
                      /\ \A k \in 1..(j - 1) :
                            ~IsLowercaseOf(rates[k].currency_code, code)}

OverrideMatches ==
    IF in_ext.some
    THEN Matches(in_ext.value, query.value.year, query.value.currency_code)
    ELSE {}
ReferenceMatches ==
    Matches(in_facts, query.value.year, query.value.currency_code)

Resolved == result.some /\ query.value.op = "find_exchange_rate"

\* C1: whenever the override fact set holds a match for the queried year and the
\* lower-cased code, resolve returns that override rate tagged UserProvided,
\* whatever the reference fact set holds.
C1_OverrideWins ==
    (Resolved /\ OverrideMatches # {}) =>
        \E r \in OverrideMatches :
            result.value = Ok([exchange_rate |-> r, source |-> "UserProvided"])

\* resolve has answered from an override while the reference holds another rate
\* for the same year and code
C1_Witness ==
    /\ Resolved
    /\ OverrideMatches # {}
    /\ ReferenceMatches # {}
    /\ ReferenceMatches # OverrideMatches
    /\ result.value.ok

\* C2: when the override holds no match and the reference does, resolve returns
\* the reference rate tagged IrsProvided; and an IrsProvided answer is never
\* given when the override holds a match.
C2_FallsThroughToReference ==
    Resolved =>
        /\ (OverrideMatches = {} /\ ReferenceMatches # {}) =>
              \E r \in ReferenceMatches :
                  result.value = Ok([exchange_rate |-> r, source |-> "IrsProvided"])
        /\ (result.value.ok /\ result.value.value.source = "IrsProvided") =>
              OverrideMatches = {}

\* the override has an entry for the year, but not the code; the reference answers
C2_Witness ==
    /\ Resolved
    /\ in_ext.some
    /\ \E i \in 1..Len(in_ext.value.years) :
          /\ in_ext.value.years[i].year = query.value.year
          /\ in_ext.value.years[i].exchange_rates # <<>>
    /\ OverrideMatches = {}
    /\ result.value.ok
    /\ result.value.value.source = "IrsProvided"

\* C3: when neither fact set holds a match, resolve, convert_to_usd and
\* convert_from_usd all fail with the "No exchange rate found" error naming the
\* code as the caller wrote it and the year.
C3_NoRateError ==
    (result.some /\ OverrideMatches = {} /\ ReferenceMatches = {}) =>
        result.value =
            [ok |-> FALSE,
             error |-> <<"No exchange rate found for ", query.value.currency_code,
                         " in year ", query.value.year>>]

\* a conversion of an upper-case code has failed though both layers hold rates
C3_Witness ==
    /\ result.some
    /\ query.value.op = "convert_to_usd"
    /\ query.value.currency_code = EUR
    /\ in_ext.some
    /\ in_ext.value.years # <<>>
    /\ in_facts.years # <<>>
    /\ ~result.value.ok

\* the call recorded in query, made on another engine
Replay(self) ==
    LET q == query.value
    IN  CASE q.op = "find_exchange_rate" ->
                FindExchangeRate(self, q.year, q.currency_code)
          [] q.op = "convert_to_usd" ->
                ConvertToUsd(self, q.year, q.currency_code, q.amount)
          [] q.op = "convert_from_usd" ->
                ConvertFromUsd(self, q.year, q.currency_code, q.amount)

\* C4: an engine built with no override answers every call as an engine built
\* from the same reference set and an override of zero years does.
C4_NoOverrideIsEmptyOverride ==
    (result.some /\ ~in_ext.some) =>
        result.value = Replay(ReportContextNew(in_facts, Some([years |-> <<>>])))

\* an engine built with no override has converted an amount
C4_Witness ==
    /\ result.some
    /\ ~in_ext.some
    /\ query.value.op = "convert_from_usd"
    /\ result.value.ok

---------------------------------------------------------------------------
(* The loader's claims *)

LastKey == keys[Len(keys)]
NoKey(k) == \A i \in 1..Len(keys) : keys[i] # k
Loaded == load_result.some /\ load_result.value.ok
Failed == load_result.some /\ ~load_result.value.ok

\* an accounts field was reached with no providers field before it
AccountsBeforeProviders ==
    \E i \in 1..Len(keys) :
        /\ keys[i] = "accounts"
        /\ \A j \in 1..(i - 1) : keys[j] # "providers"

\* C5: once the accounts field is reached with no providers field parsed before
\* it, loading has failed with the ordering error, whatever the accounts hold.
C5_AccountsBeforeProvidersFails ==
    AccountsBeforeProviders =>
        load_result = Some([ok |-> FALSE,
                            error |-> <<"accounts must come after providers in YAML">>])

\* accounts came first, after a fact_extensions field that parsed, and were not empty
C5_Witness ==
    /\ AccountsBeforeProviders
    /\ fact_extensions.some
    /\ value.value # <<>>
    /\ Failed

\* With the accounts field read last: the accounts of it whose provider_handle is
\* the handle of none of the providers parsed before it.
Unmatched ==
    {i \in 1..Len(value.value) :
        \A j \in 1..Len(providers.value) :
            providers.value[j].handle # value.value[i].provider_handle}

AccountsJustRead == keys # <<>> /\ LastKey = "accounts" /\ providers.some

\* C6: an accounts field holding an account whose provider_handle matches no
\* provider parsed before it fails the load with the unknown-provider error naming
\* the first such account and its provider handle; and no loaded account is
\* without its provider.
C6_UnknownProviderFails ==
    /\ (AccountsJustRead /\ Unmatched # {}) =>
          LET first == CHOOSE i \in Unmatched : \A k \in Unmatched : i <= k
          IN  load_result =
                  Some([ok |-> FALSE,
                        error |-> <<"account ", value.value[first].handle,
                                    " references unknown provider ",
                                    value.value[first].provider_handle>>])
    /\ (Loaded /\ load_result.value.value.accounts.some) =>
          \A i \in 1..Len(load_result.value.value.accounts.value) :
              LET account == load_result.value.value.accounts.value[i]
              IN  /\ account.provider.some
                  /\ account.provider.value.handle = account.provider_handle

\* two accounts of different handles, neither with a known provider
C6_Witness ==
    /\ AccountsJustRead
    /\ Cardinality(Unmatched) = 2
    /\ value.value[1].handle # value.value[2].handle
    /\ Failed

\* the first provider of a list with a given handle
FirstWithHandle(list, handle) ==
    {list[j] : j \in {j \in 1..Len(list) :
                          /\ list[j].handle = handle
                          /\ \A k \in 1..(j - 1) : list[k].handle # handle}}

\* C7: after a successful load every account carries the first provider of the
\* returned providers whose handle is the account's provider_handle.
C7_AttachedIsFirstOfReturned ==
    (Loaded /\ load_result.value.value.accounts.some) =>
        \A i \in 1..Len(load_result.value.value.accounts.value) :
            LET account == load_result.value.value.accounts.value[i]
            IN  /\ account.provider.some
                /\ account.provider.value \in
                       FirstWithHandle(load_result.value.value.providers,
                                       account.provider_handle)

\* C8 as stated: a load succeeds only if every account's provider_handle is the
\* handle of exactly one of the loaded providers.
C8_ExactlyOneProvider ==
    (Loaded /\ load_result.value.value.accounts.some) =>
        \A i \in 1..Len(load_result.value.value.accounts.value) :
            LET account == load_result.value.value.accounts.value[i]
                list == load_result.value.value.providers
            IN  Cardinality({j \in 1..Len(list) :
                                list[j].handle = account.provider_handle}) = 1

\* C8, amended: an accounts field read after a providers field passes exactly when
\* every account's provider_handle is the handle of at least one provider parsed
\* before it, and each account then carries the first of them.
C8_AtLeastOneProvider ==
    AccountsJustRead =>
        /\ ~Failed <=> Unmatched = {}
        /\ ~Failed =>
              /\ accounts.some
              /\ Len(accounts.value) = Len(value.value)
              /\ \A i \in 1..Len(accounts.value) :
                    /\ accounts.value[i].provider.some
                    /\ accounts.value[i].provider.value \in
                           FirstWithHandle(providers.value,
                                           value.value[i].provider_handle)

\* a load has succeeded with an account whose handle two providers share
C8_Witness ==
    /\ AccountsJustRead
    /\ Loaded
    /\ \E i \in 1..Len(value.value) :
          Cardinality({j \in 1..Len(providers.value) :
                          providers.value[j].handle
                              = value.value[i].provider_handle}) = 2

\* the fact_extensions field read last holds a rate that is not above zero
BadRateJustRead ==
    /\ keys # <<>>
    /\ LastKey = "fact_extensions"
    /\ \E i \in 1..Len(value.value.years) :
          \E j \in 1..Len(value.value.years[i].exchange_rates) :
              LET rate == value.value.years[i].exchange_rates[j].rate
              IN  ~rate.nan /\ rate.milli <= 0

---------------------------------------------------------------------------
(* The Rate Value constructor's claim *)

\* C10: ExchangeRate::new fails for every rate <= 0 and succeeds for every
\* rate > 0, storing then the lower-case form of the code and the rate as given.
C10_NewValidatesAndNormalises ==
    er_out.some =>
        LET code == er_in.value.currency_code
            rate == er_in.value.rate
        IN  /\ (~rate.nan /\ rate.milli <= 0) => ~er_out.value.ok
            /\ (~rate.nan /\ rate.milli > 0) =>
                  /\ er_out.value.ok
                  /\ IsLowercaseOf(er_out.value.value.currency_code, code)
                  /\ er_out.value.value.rate = rate

\* "eUr" with a rate above zero has been constructed
C10_Witness ==
    /\ er_out.some
    /\ er_in.value.currency_code = eUr
    /\ er_in.value.rate = F64(850)
    /\ er_out.value.ok

---------------------------------------------------------------------------
(* data/account.rs: the date queries of AccountDefinition *)

\* Calendar years the dates of the model fall in.
DateYearSpan == 4

\* NaiveDate::from_ymd_opt(year, month, day), for a date that exists
FromYmdOpt(year, month, day) == Some([year |-> year, month |-> month, day |-> day])

\* NaiveDate's <=: the calendar order
DateLe(a, b) ==
    \/ a.year < b.year
    \/ a.year = b.year /\ a.month < b.month
    \/ a.year = b.year /\ a.month = b.month /\ a.day <= b.day
DateGe(a, b) == DateLe(b, a)

\* open_on with `closing_date > date` for `closing_date >= date`
OpenOn_ExclusiveClose(self, date) ==
    /\ DateLe(self.opening_date, date)
    /\ IF self.closing_date.some
       THEN DateGe(self.closing_date.value, date) /\ self.closing_date.value # date
       ELSE TRUE

\* self.opening_date <= date && self.closing_date.map_or(true, |c| c >= date)
OpenOn(self, date) ==
    /\ DateLe(self.opening_date, date)
    /\ IF self.closing_date.some
       THEN DateGe(self.closing_date.value, date)
       ELSE TRUE

OpenDuring(self, year) ==
    LET year_start == FromYmdOpt(year, 1, 1).value
        year_end == FromYmdOpt(year, 12, 31).value
    IN  /\ DateLe(self.opening_date, year_end)
        /\ IF self.closing_date.some
           THEN DateGe(self.closing_date.value, year_start)
           ELSE TRUE

---------------------------------------------------------------------------
(* The accounts and dates the queries are exercised on *)

DateYears == {2021 + k : k \in 1..DateYearSpan}

\* the first and last day of a year, and the two days around a mid-year closing
Dates ==
    {FromYmdOpt(y, md[1], md[2]).value :
        y \in DateYears, md \in {<<1, 1>>, <<6, 30>>, <<7, 1>>, <<12, 31>>}}

DatedAccounts ==
    [opening_date : Dates, closing_date : {None} \cup {Some(d) : d \in Dates}]

InitAccount ==
    /\ acct \in {Some(a) : a \in DatedAccounts}
    /\ acct_query = None
    /\ acct_result = None
    /\ IdleEngine
    /\ IdleRate
    /\ IdleLoader
    /\ IdleConv

CallOpenOn ==
    /\ \E date \in Dates :
          /\ acct_query' = Some([op |-> "open_on", date |-> date])
          /\ acct_result' = Some(OpenOn(acct.value, date))
    /\ UNCHANGED <<acct, engineVars, rateVars, loaderVars, convVars>>

CallOpenDuring ==
    /\ \E year \in DateYears :
          /\ acct_query' = Some([op |-> "open_during", year |-> year])
          /\ acct_result' = Some(OpenDuring(acct.value, year))
    /\ UNCHANGED <<acct, engineVars, rateVars, loaderVars, convVars>>

NextAccount ==
    \/ CallOpenOn
    \/ CallOpenDuring

SpecAccount == InitAccount /\ [][NextAccount]_vars

---------------------------------------------------------------------------
(* The date queries' claims *)

\* a date as a count that grows with the calendar
DayCount(d) == 372 * d.year + 31 * d.month + d.day

AskedOpenOn == acct_result.some /\ acct_query.value.op = "open_on"
AskedOpenDuring == acct_result.some /\ acct_query.value.op = "open_during"

\* C11: open_on(date) is true exactly when opening_date <= date and the closing
\* date is absent or >= date: the closing date is inclusive, an account without
\* one is open on every date from opening_date on, and none is open before it.
C11_OpenOn ==
    AskedOpenOn =>
        LET opening == DayCount(acct.value.opening_date)
            date == DayCount(acct_query.value.date)
            closing == acct.value.closing_date
        IN  /\ acct_result.value <=>
                  /\ opening <= date
                  /\ ~closing.some \/ DayCount(closing.value) >= date
            /\ (closing.some /\ closing.value = acct_query.value.date
                    /\ opening <= date) => acct_result.value
            /\ (~closing.some /\ opening <= date) => acct_result.value
            /\ date < opening => ~acct_result.value

\* an account has been asked about its closing date, after its opening, and is open
C11_Witness ==
    /\ AskedOpenOn
    /\ acct.value.closing_date = Some(acct_query.value.date)
    /\ acct.value.opening_date # acct_query.value.date
    /\ acct_result.value

\* C12: open_during(year) is true exactly when open_on(d) is true of some date d
\* from Jan 1 to Dec 31 of the year.
C12_OpenDuringIsOpenOnSomeDay ==
    AskedOpenDuring =>
        (acct_result.value <=>
            \E d \in Dates :
                /\ d.year = acct_query.value.year
                /\ OpenOn(acct.value, d))

---------------------------------------------------------------------------
(* The conversions' claims *)

Converted == result.some /\ query.value.op \in {"convert_to_usd", "convert_from_usd"}

\* the rates resolve answers the recorded query with: the override's, else the
\* reference's
ResolvedRates == IF OverrideMatches # {} THEN OverrideMatches ELSE ReferenceMatches

\* n thousandths is a whole number of cents, and no other is nearer to num / den
NearestCent(n, num, den) ==
    /\ n % 10 = 0
    /\ 2 * Abs(n * den - num) <= 10 * den

\* C13: whenever resolve succeeds with rate r, convert_to_usd returns amount / r
\* and convert_from_usd amount * r, each rounded to two decimal places, with the
\* rate resolve returns (the override's when present, else the reference's).
C13_ConversionsUseResolvedRate ==
    (Converted /\ ResolvedRates # {}) =>
        \E r \in ResolvedRates :
            LET q == query.value
                found == FindExchangeRate(ctx.value, q.year, q.currency_code)
            IN  /\ found.ok
                /\ found.value.exchange_rate = r
                /\ result.value.ok
                /\ ~result.value.value.nan
                /\ IF q.op = "convert_to_usd"
                   THEN NearestCent(result.value.value.milli,
                                    1000 * q.amount.milli, r.rate.milli)
                   ELSE NearestCent(result.value.value.milli,
                                    q.amount.milli * r.rate.milli, 1000)

\* an amount has been converted to USD with the override's rate while the
\* reference holds another, and the quotient had to be rounded
C13_Witness ==
    /\ Converted
    /\ query.value.op = "convert_to_usd"
    /\ OverrideMatches # {}
    /\ ReferenceMatches # {}
    /\ ReferenceMatches # OverrideMatches
    /\ result.value.ok
    /\ \E r \in OverrideMatches :
          result.value.value.milli * r.rate.milli # 1000 * query.value.amount.milli

---------------------------------------------------------------------------
(* facts/exchange_rate.rs: an amount converted from USD and back *)

\* The amounts from 0.00 up to this many cents are all converted.
MaxAmountCents == 120

ConvRates == {F64(100), F64(333), F64(850), F64(1080), F64(2000)}

ConvExchangeRates == {ExchangeRateNew(EUR, r).value : r \in ConvRates}

\* amounts with two decimal places
ConvAmounts ==
    {F64(10 * k) : k \in 0..MaxAmountCents} \cup {F64(50000), F64(100000)}

InitConv ==
    /\ cv_in \in {Some([rate |-> er, amount |-> a]) :
                      er \in ConvExchangeRates, a \in ConvAmounts}
    /\ cv_out = None
    /\ IdleEngine
    /\ IdleRate
    /\ IdleLoader
    /\ IdleAccount

\* let local = rate.convert_from_usd(amount)
CallRateConvertFromUsd ==
    /\ cv_in.some
    /\ ~cv_out.some
    /\ cv_out' = Some([done |-> FALSE,
                       local |-> RateConvertFromUsd(cv_in.value.rate,
                                                    cv_in.value.amount)])
    /\ UNCHANGED <<cv_in, engineVars, rateVars, loaderVars, accountVars>>

\* rate.convert_to_usd(local)
CallRateConvertToUsd ==
    /\ cv_out.some
    /\ ~cv_out.value.done
    /\ cv_out' = Some([done |-> TRUE,
                       local |-> cv_out.value.local,
                       usd |-> RateConvertToUsd(cv_in.value.rate,
                                                cv_out.value.local)])
    /\ UNCHANGED <<cv_in, engineVars, rateVars, loaderVars, accountVars>>

NextConv ==
    \/ CallRateConvertFromUsd
    \/ CallRateConvertToUsd

SpecConv == InitConv /\ [][NextConv]_vars

---------------------------------------------------------------------------
(* The round trip's claim *)

RoundTripped == cv_out.some /\ cv_out.value.done

\* the distance, in thousandths, of the round trip's result from the amount
RoundTripError == Abs(cv_out.value.usd.milli - cv_in.value.amount.milli)

\* C14 as stated: for every rate > 0 and every amount with two decimal places,
\* convert_to_usd(convert_from_usd(amount)) differs from amount by at most 0.01.
C14_RoundTripWithinOneCent ==
    RoundTripped =>
        /\ ~cv_out.value.usd.nan
        /\ RoundTripError <= 10

\* C14, amended: the round trip's result differs from amount by at most
\* 0.005 / rate + 0.005, which is at most 0.01 when rate >= 1, and it equals
\* amount for rate 0.85 with the amounts 100.00 and 50.00.
C14_RoundTripWithinRateBound ==
    RoundTripped =>
        LET r == cv_in.value.rate.rate.milli
            a == cv_in.value.amount.milli
        IN  /\ ~cv_out.value.usd.nan
            /\ RoundTripError * r <= 5000 + 5 * r
            /\ r >= 1000 => RoundTripError <= 10
            /\ (r = 850 /\ a \in {100000, 50000}) => cv_out.value.usd.milli = a

\* 1.00 at rate 0.333 has come back as 0.99
C14_Witness ==
    /\ RoundTripped
    /\ cv_in.value.rate.rate = F64(333)
    /\ cv_in.value.amount = F64(1000)
    /\ cv_out.value.local = F64(330)
    /\ cv_out.value.usd = F64(990)

---------------------------------------------------------------------------
(* The lookup's claims *)

\* a and b are the same letters, position by position, whatever their case
DiffersOnlyInCase(a, b) ==
    /\ Len(a) = Len(b)
    /\ \A i \in 1..Len(a) :
          \/ a[i] = b[i]
          \/ <<a[i], b[i]>> \in CasePairs
          \/ <<b[i], a[i]>> \in CasePairs

\* a letter in either case
CaseOf(c) ==
    {c} \cup {p[2] : p \in {q \in CasePairs : q[1] = c}}
        \cup {p[1] : p \in {q \in CasePairs : q[2] = c}}

\* every spelling of a code, from its i-th letter on, in upper- and lower-case
\* letters
RECURSIVE SpellingsFrom(_, _)
SpellingsFrom(code, i) ==
    IF i > Len(code) THEN {<<>>}
    ELSE {<<c>> \o rest : c \in CaseOf(code[i]), rest \in SpellingsFrom(code, i + 1)}

CaseVariants(code) == SpellingsFrom(code, 1)

\* the call recorded in query, made with another spelling of the code
ReplayWithCode(code) ==
    LET q == query.value
    IN  CASE q.op = "find_exchange_rate" ->
                FindExchangeRate(ctx.value, q.year, code)
          [] q.op = "convert_to_usd" ->
                ConvertToUsd(ctx.value, q.year, code, q.amount)
          [] q.op = "convert_from_usd" ->
                ConvertFromUsd(ctx.value, q.year, code, q.amount)

\* the same rate or value, or a failure for both
SameOutcome(a, b) == a.ok = b.ok /\ (a.ok => a.value = b.value)

\* C15: for every fact set, every year and every two query codes that differ only
\* in letter case, get_exchange_rate and resolve return the same outcome: the
\* same rate, or not-found for both.
C15_LookupIgnoresCase ==
    result.some =>
        LET q == query.value
            reference == GetExchangeRate(ctx.value.facts, q.year, q.currency_code)
            override == GetExchangeRate(ctx.value.extensions, q.year, q.currency_code)
        IN  \A v \in CaseVariants(q.currency_code) :
                /\ DiffersOnlyInCase(v, q.currency_code)
                /\ GetExchangeRate(ctx.value.facts, q.year, v) = reference
                /\ GetExchangeRate(ctx.value.extensions, q.year, v) = override
                /\ SameOutcome(result.value, ReplayWithCode(v))

\* resolve has found a rate for a code written in upper case
C15_Witness ==
    /\ Resolved
    /\ query.value.currency_code = EUR
    /\ eur \in CaseVariants(EUR)
    /\ Chf \in CaseVariants(CHF)
    /\ result.value.ok
    /\ result.value.value.exchange_rate.currency_code = eur

\* the answer of a layer for the recorded query
LayerAnswer(layer) ==
    GetExchangeRate(layer, query.value.year, query.value.currency_code)

\* entry i is the layer's first entry for the queried year
FirstEntryOfYear(layer, i) ==
    /\ layer.years[i].year = query.value.year
    /\ \A k \in 1..(i - 1) : layer.years[k].year # query.value.year

\* the rate at j in an entry's rates carries the queried code, lower-cased
HasCodeAt(rates, j) ==
    IsLowercaseOf(rates[j].currency_code, query.value.currency_code)

\* the layer's first entry for the queried year lacks the queried code
FirstEntryLacksCode(layer) ==
    \E i \in 1..Len(layer.years) :
        /\ FirstEntryOfYear(layer, i)
        /\ \A j \in 1..Len(layer.years[i].exchange_rates) :
              ~HasCodeAt(layer.years[i].exchange_rates, j)

\* a later entry of the layer for the queried year holds the queried code
LaterEntryHasCode(layer) ==
    \E i, k \in 1..Len(layer.years) :
        /\ FirstEntryOfYear(layer, i)
        /\ k > i
        /\ layer.years[k].year = query.value.year
        /\ \E j \in 1..Len(layer.years[k].exchange_rates) :
              HasCodeAt(layer.years[k].exchange_rates, j)

\* C16: lookup in a fact set is first-match at both levels: only the first entry
\* of the queried year is searched, and in it the first rate with the lower-cased
\* code is returned; if that entry lacks the code the layer answers not-found,
\* even when a later entry of the year holds the code, and resolve then falls
\* through to the reference or fails.
C16_FirstMatchAtBothLevels ==
    result.some =>
        /\ \A layer \in {ctx.value.extensions, ctx.value.facts} :
              /\ (\A i \in 1..Len(layer.years) : ~FirstEntryOfYear(layer, i))
                    => LayerAnswer(layer) = None
              /\ FirstEntryLacksCode(layer) => LayerAnswer(layer) = None
              /\ \A i \in 1..Len(layer.years) :
                    FirstEntryOfYear(layer, i) =>
                        LET rates == layer.years[i].exchange_rates
                        IN  \A j \in 1..Len(rates) :
                                (/\ HasCodeAt(rates, j)
                                 /\ \A k \in 1..(j - 1) : ~HasCodeAt(rates, k))
                                    => LayerAnswer(layer) = Some(rates[j])
        /\ (FirstEntryLacksCode(ctx.value.extensions) /\ result.value.ok
                /\ query.value.op = "find_exchange_rate")
              => /\ result.value.value.source = "IrsProvided"
                 /\ LayerAnswer(ctx.value.facts)
                       = Some(result.value.value.exchange_rate)
        /\ (FirstEntryLacksCode(ctx.value.extensions)
                /\ LayerAnswer(ctx.value.facts) = None)
              => ~result.value.ok

\* resolve has failed although a later entry of the override for the year holds
\* the code
C16_Witness ==
    /\ Resolved
    /\ FirstEntryLacksCode(ctx.value.extensions)
    /\ LaterEntryHasCode(ctx.value.extensions)
    /\ ~result.value.ok

---------------------------------------------------------------------------
(* The loaded rates' claim *)

\* the rates of entry i of a fact set
RatesOfEntry(facts, i) ==
    {facts.years[i].exchange_rates[j] :
        j \in 1..Len(facts.years[i].exchange_rates)}

\* C17: every rate of a fact set produced by loading is greater than zero and
\* carries a lower-case currency code, so that convert_to_usd never divides by
\* zero.
C17_LoadedRatesPositive ==
    (Loaded /\ load_result.value.value.fact_extensions.some) =>
        LET facts == load_result.value.value.fact_extensions.value
        IN  \A i \in 1..Len(facts.years) :
                \A er \in RatesOfEntry(facts, i) :
                    /\ ~er.rate.nan
                    /\ er.rate.milli > 0
                    /\ \A k \in 1..Len(er.currency_code) :
                          er.currency_code[k] \in LowerLetters

===========================================================================
